---- MODULE Spec2Model ----
(***************************************************************************)
(* user_service/app/main.py: registration, login, JWT issuance and         *)
(* verification, the token-guarded profile handlers and delete_user, over  *)
(* the user table.                                                         *)
(*                                                                         *)
(* Time is counted in ticks of 1/TicksPerSec second, because               *)
(* datetime.utcnow() is finer than the whole seconds the JWT "exp" claim   *)
(* is encoded in.                                                          *)
(***************************************************************************)
EXTENDS Integers, FiniteSets, Sequences, TLC

VARIABLES
    now,        \* datetime.utcnow(), in ticks
    advances,   \* how many times the clock has been moved
    directory,  \* rows of the user table
    next_id,    \* next value of the user_id primary key sequence
    reg,        \* register_user requests between their SELECT and their INSERT
    areq,       \* a protected request between get_current_user and its handler
    tokens,     \* tokens the clients hold
    issued,     \* create_access_token calls: the token, when, and the lifetime asked
    stale,      \* held tokens whose subject's row was deleted after they were issued
    resp        \* the response last sent

vars == <<now, advances, directory, next_id, reg, areq, tokens, issued, stale, resp>>

----------------------------------------------------------------------------
(* Bounds                                                                  *)

TicksPerSec == 2
MaxAdvances == 2
MaxUsers == 2
MaxTokens == 1

Emails == {"a@x.com", "b@x.com"}
Passwords == {"pw123", "hunter2"}
Salts == {"salt1", "salt2"}
\* Service workers that may each be inside register_user at the same time.
RegProcs == {"w1", "w2"}

----------------------------------------------------------------------------
(* Configuration                                                           *)

ACCESS_TOKEN_EXPIRE_MINUTES == 60
SECRET_KEY == "secret-key"
OtherKey == "attacker-key"

\* timedelta(minutes=m), in ticks
Minutes(m) == m * 60 * TicksPerSec
DefaultLifetime == Minutes(ACCESS_TOKEN_EXPIRE_MINUTES)

None == "None"

----------------------------------------------------------------------------
(* Credential hasher                                                       *)

\* pwd_context.hash with a given salt; the digest is kept as the pair it is
\* computed from (a collision-free one-way function).
bcrypt(password, salt) ==
    [scheme |-> "bcrypt", salt |-> salt, digest |-> <<salt, password>>]

\* hash_password draws a fresh salt: the hashes one call may return.
hash_password(password) == {bcrypt(password, s) : s \in Salts}

verify_password(plainText, hashedPassword) ==
    hashedPassword = bcrypt(plainText, hashedPassword.salt)

----------------------------------------------------------------------------
(* Token issuer / verifier                                                 *)

\* jwt.encode: a datetime "exp" is written as whole seconds since the epoch.
jwt_encode(payload, key) ==
    [sub |-> payload.sub, exp |-> payload.exp \div TicksPerSec,
     key |-> key, wellformed |-> TRUE]

\* create_access_token that always takes the default lifetime.
create_access_token_default_only(data, expire_delta, t) ==
    jwt_encode([sub |-> data.sub,
                exp |-> t + Minutes(ACCESS_TOKEN_EXPIRE_MINUTES)], SECRET_KEY)

\* expire_delta = 0 stands for both None and timedelta(0): either is falsy.
create_access_token(data, expire_delta, t) ==
    LET expire == IF expire_delta # 0
                  THEN t + expire_delta
                  ELSE t + Minutes(ACCESS_TOKEN_EXPIRE_MINUTES)
    IN jwt_encode([sub |-> data.sub, exp |-> expire], SECRET_KEY)

\* jwt.decode: the payload, or the PyJWTError raised.
jwt_decode(token, key, t) ==
    IF ~token.wellformed THEN [error |-> "DecodeError", sub |-> None]
    ELSE IF token.key # key THEN [error |-> "InvalidSignatureError", sub |-> None]
    ELSE IF token.exp * TicksPerSec <= t
         THEN [error |-> "ExpiredSignatureError", sub |-> None]
    ELSE [error |-> None, sub |-> token.sub]

NoBody == [none |-> TRUE]
Response(op, status, detail, body) ==
    [op |-> op, status |-> status, detail |-> detail, body |-> body]

\* get_current_user: the email, or the HTTPException raised.
get_current_user(token, t) ==
    LET payload == jwt_decode(token, SECRET_KEY, t)
    IN IF payload.error # None
       THEN [status |-> 401, detail |-> "Invalid Credentials", email |-> None]
       ELSE IF payload.sub = None
       THEN [status |-> 401, detail |-> "Invalid credentials", email |-> None]
       ELSE [status |-> 200, detail |-> None, email |-> payload.sub]

----------------------------------------------------------------------------
(* User table                                                              *)

UserFields == {"user_id", "user_name", "user_email", "user_password",
               "user_address", "user_country", "phone_number"}

\* The fields of a User that a response_model=User response carries.
ResponseFields == UserFields \ {"user_password"}

\* The fields of UserUpdateModel.
MutableFields == {"user_name", "user_address", "user_country", "phone_number"}

\* Whether the table rejects a second row with the same user_email.
UniqueEmailConstraint == FALSE

NoUser == [user_id |-> 0]

\* A lookup whose where clause is lost: any row may come back.
first_by_email_unfiltered(dir, email) ==
    IF dir = {} THEN {NoUser} ELSE dir

\* select(User).where(User.user_email == email) ... .first(): no ORDER BY, so
\* any matching row may come first.
first_by_email(dir, email) ==
    LET rows == {u \in dir : u.user_email = email}
    IN IF rows = {} THEN {NoUser} ELSE rows

\* session.get(User, user_id)
get_by_id(dir, user_id) ==
    LET rows == {u \in dir : u.user_id = user_id}
    IN IF rows = {} THEN NoUser ELSE CHOOSE u \in rows : TRUE

UserResponse(user) == [f \in ResponseFields |-> user[f]]

----------------------------------------------------------------------------
(* Requests                                                                *)

Unset == "<unset>"

NewUser(email, password) ==
    [user_name |-> "n1", user_email |-> email, user_password |-> password,
     user_address |-> "addr1", user_country |-> "PK", phone_number |-> "0300-1"]
NewUsers ==
    {NewUser("a@x.com", "pw123"), NewUser("a@x.com", "hunter2"),
     NewUser("b@x.com", "hunter2")}

\* UserUpdateModel bodies: a field is a value, or was not sent.
EmptyUpdate == [f \in MutableFields |-> Unset]
Updates ==
    {EmptyUpdate,
     [EmptyUpdate EXCEPT !.user_name = "n2"],
     [EmptyUpdate EXCEPT !.user_address = "addr2", !.phone_number = "0300-2"]}

\* Tokens no login issued: not a JWT at all, and a JWT signed with another key
\* (its exp far in the future).
Garbage == [sub |-> None, exp |-> 0, key |-> None, wellformed |-> FALSE]
Forged ==
    {Garbage,
     [sub |-> "a@x.com", exp |-> 4 * DefaultLifetime, key |-> OtherKey,
      wellformed |-> TRUE]}

Presented == tokens \cup Forged

Jumps == {1, DefaultLifetime - 1}

Idle == [pc |-> "idle"]

----------------------------------------------------------------------------
(* Handlers                                                                *)

\* An existence check that never finds a row.
register_conflict_never(db_user) == FALSE

EmailTaken ==
    "A user with this email already exists. Please try registering with a different email address."

\* register_user, "if db_user": the existence check found a row.
register_conflict(db_user) == db_user.user_id # 0

\* The password column holding the password as it was sent.
Plaintext(password) ==
    [scheme |-> "plaintext", salt |-> "", digest |-> <<"", password>>]

\* A User built with the password as it was sent.
new_user_row_unhashed(new_user, user_id, hashed) ==
    [user_id |-> user_id,
     user_name |-> new_user.user_name,
     user_email |-> new_user.user_email,
     user_password |-> Plaintext(new_user.user_password),
     user_address |-> new_user.user_address,
     user_country |-> new_user.user_country,
     phone_number |-> new_user.phone_number]

\* register_user: the User built from the request and the hashed password.
new_user_row(new_user, user_id, hashed) ==
    [user_id |-> user_id,
     user_name |-> new_user.user_name,
     user_email |-> new_user.user_email,
     user_password |-> hashed,
     user_address |-> new_user.user_address,
     user_country |-> new_user.user_country,
     phone_number |-> new_user.phone_number]

\* A login that tells a missing user from a bad password.
login_for_access_token_telling(user, password, t) ==
    IF user.user_id = 0
    THEN Response("login", 401, "User not found", NoBody)
    ELSE IF ~verify_password(password, user.user_password)
    THEN Response("login", 401, "Invalid email or password", NoBody)
    ELSE Response("login", 200, None,
                  [access_token |->
                       create_access_token([sub |-> user.user_email],
                                           Minutes(ACCESS_TOKEN_EXPIRE_MINUTES), t),
                   token_type |-> "bearer"])

\* A login that checks only that the user exists.
login_for_access_token_unverified(user, password, t) ==
    IF user.user_id = 0
    THEN Response("login", 401, "Invalid email or password", NoBody)
    ELSE Response("login", 200, None,
                  [access_token |->
                       create_access_token([sub |-> user.user_email],
                                           Minutes(ACCESS_TOKEN_EXPIRE_MINUTES), t),
                   token_type |-> "bearer"])

\* login_for_access_token, given the row its lookup returned.
login_for_access_token(user, password, t) ==
    IF user.user_id = 0 \/ ~verify_password(password, user.user_password)
    THEN Response("login", 401, "Invalid email or password", NoBody)
    ELSE LET access_token_expires == Minutes(ACCESS_TOKEN_EXPIRE_MINUTES)
             access_token == create_access_token([sub |-> user.user_email],
                                                 access_token_expires, t)
         IN Response("login", 200, None,
                     [access_token |-> access_token, token_type |-> "bearer"])

\* read_auth_user_profile, given the row its lookup returned.
read_auth_user_profile(user) ==
    IF user.user_id = 0
    THEN Response("get_profile", 404, "User not found", NoBody)
    ELSE Response("get_profile", 200, None, UserResponse(user))

\* An update that writes every field of the body, sent or not.
apply_update_all(user, profile_data) ==
    [f \in DOMAIN user |->
        IF f \in MutableFields THEN profile_data[f] ELSE user[f]]

\* update_auth_user_profile: model_dump(exclude_unset=True), then setattr.
apply_update(user, profile_data) ==
    [f \in DOMAIN user |->
        IF f \in MutableFields /\ profile_data[f] # Unset
        THEN profile_data[f] ELSE user[f]]

----------------------------------------------------------------------------
(* Actions                                                                 *)

Init ==
    /\ now = 0
    /\ advances = 0
    /\ directory = {}
    /\ next_id = 1
    /\ reg = [p \in RegProcs |-> Idle]
    /\ areq = Idle
    /\ tokens = {}
    /\ issued = {}
    /\ stale = {}
    /\ resp = Response("none", 0, None, NoBody)

Advance(d) ==
    /\ advances < MaxAdvances
    /\ now' = now + d
    /\ advances' = advances + 1
    /\ UNCHANGED <<directory, next_id, reg, areq, tokens, issued, stale, resp>>

\* register_user up to its existence check: 409, or on to the insert.
RegisterCheck(p, new_user) ==
    /\ reg[p].pc = "idle"
    /\ next_id + Cardinality({q \in RegProcs : reg[q].pc = "insert"}) <= MaxUsers
    /\ \E db_user \in first_by_email(directory, new_user.user_email) :
          IF register_conflict(db_user)
          THEN /\ resp' = Response("register_user", 409, EmailTaken, NoBody)
               /\ UNCHANGED reg
          ELSE /\ reg' = [reg EXCEPT ![p] = [pc |-> "insert", new_user |-> new_user]]
               /\ UNCHANGED resp
    /\ UNCHANGED <<now, advances, directory, next_id, areq, tokens, issued, stale>>

\* register_user from hash_password to the response.
RegisterInsert(p) ==
    /\ reg[p].pc = "insert"
    /\ \E hashed \in hash_password(reg[p].new_user.user_password) :
          LET user == new_user_row(reg[p].new_user, next_id, hashed)
              taken == \E u \in directory : u.user_email = user.user_email
          IN IF UniqueEmailConstraint /\ taken
             THEN /\ resp' = Response("register_user", 500, "Internal Server Error",
                                      NoBody)
                  /\ UNCHANGED <<directory, next_id>>
             ELSE /\ directory' = directory \cup {user}
                  /\ next_id' = next_id + 1
                  /\ resp' = Response("register_user", 200, None, UserResponse(user))
    /\ reg' = [reg EXCEPT ![p] = Idle]
    /\ UNCHANGED <<now, advances, areq, tokens, issued, stale>>

Login(username, password) ==
    /\ \E user \in first_by_email(directory, username) :
          /\ resp' = login_for_access_token(user, password, now)
          /\ tokens' =
               IF resp'.status = 200 /\ Cardinality(tokens) < MaxTokens
               THEN tokens \cup {resp'.body.access_token}
               ELSE tokens
    /\ UNCHANGED <<now, advances, directory, next_id, reg, areq, issued, stale>>

\* A dependency that hands the handler whatever the token says, valid or not.
GetCurrentUserUnguarded(kind, token, profile_data) ==
    /\ areq.pc = "idle"
    /\ areq' = [pc |-> "handler", kind |-> kind, token |-> token,
                current_user_email |-> token.sub,
                profile_data |-> profile_data]
    /\ UNCHANGED <<now, advances, directory, next_id, reg, tokens, issued, stale,
                   resp>>

\* The get_current_user dependency of a get_profile or update_profile request.
GetCurrentUser(kind, token, profile_data) ==
    /\ areq.pc = "idle"
    /\ LET r == get_current_user(token, now)
       IN IF r.status # 200
          THEN /\ resp' = Response(kind, r.status, r.detail, NoBody)
               /\ UNCHANGED areq
          ELSE /\ areq' = [pc |-> "handler", kind |-> kind, token |-> token,
                           current_user_email |-> r.email,
                           profile_data |-> profile_data]
               /\ UNCHANGED resp
    /\ UNCHANGED <<now, advances, directory, next_id, reg, tokens, issued, stale>>

ReadAuthUserProfile ==
    /\ areq.pc = "handler"
    /\ areq.kind = "get_profile"
    /\ \E user \in first_by_email(directory, areq.current_user_email) :
          resp' = read_auth_user_profile(user)
    /\ areq' = Idle
    /\ UNCHANGED <<now, advances, directory, next_id, reg, tokens, issued, stale>>

UpdateAuthUserProfile ==
    /\ areq.pc = "handler"
    /\ areq.kind = "update_profile"
    /\ \E select_current_user \in first_by_email(directory, areq.current_user_email) :
          IF select_current_user.user_id = 0
          THEN /\ resp' = Response("update_profile", 404, "Not Found", NoBody)
               /\ UNCHANGED directory
          ELSE /\ directory' = (directory \ {select_current_user}) \cup
                                  {apply_update(select_current_user, areq.profile_data)}
               \* what the handler returns, before response_model is applied
               /\ resp' = Response("update_profile", 200, None,
                                   [message |-> "Profile updated successfully"])
    /\ areq' = Idle
    /\ UNCHANGED <<now, advances, next_id, reg, tokens, issued, stale>>

DeleteUser(user_id) ==
    /\ LET db_user == get_by_id(directory, user_id)
       IN IF db_user.user_id = 0
          THEN /\ resp' = Response("delete_user", 404, "User not found", NoBody)
               /\ UNCHANGED <<directory, stale>>
          ELSE /\ directory' = directory \ {db_user}
               /\ stale' = stale \cup {t \in tokens : t.sub = db_user.user_email}
               /\ resp' = Response("delete_user", 200, None, UserResponse(db_user))
    /\ UNCHANGED <<now, advances, next_id, reg, areq, tokens, issued>>

Next ==
    \/ \E d \in Jumps : Advance(d)
    \/ \E p \in RegProcs, new_user \in NewUsers : RegisterCheck(p, new_user)
    \/ \E p \in RegProcs : RegisterInsert(p)
    \/ \E username \in Emails, password \in Passwords : Login(username, password)
    \/ \E token \in Presented : GetCurrentUser("get_profile", token, EmptyUpdate)
    \/ \E token \in Presented, profile_data \in Updates :
          GetCurrentUser("update_profile", token, profile_data)
    \/ ReadAuthUserProfile
    \/ UpdateAuthUserProfile
    \/ \E user_id \in 1..MaxUsers : DeleteUser(user_id)

Spec == Init /\ [][Next]_vars

----------------------------------------------------------------------------
(* The token functions on their own: create_access_token and               *)
(* get_current_user called with any subject, lifetime and clock.           *)

\* data: a dict with a "sub", or one without.
TokenData == {[sub |-> e] : e \in Emails \cup {None}}

\* expire_delta, in ticks; 0 is the absent (or zero) one.
Lifetimes == {0, 1, TicksPerSec, TicksPerSec + 1}

TokenJumps == {1, TicksPerSec, DefaultLifetime - 1}

CreateAccessToken(data, expire_delta) ==
    /\ Cardinality(issued) < MaxTokens
    /\ issued' = issued \cup {[tok |-> create_access_token(data, expire_delta, now),
                                t0 |-> now, expire_delta |-> expire_delta]}
    /\ UNCHANGED <<now, advances, directory, next_id, reg, areq, tokens, stale, resp>>

\* get_current_user called on an issued token; the call is kept with its result.
VerifyToken(i) ==
    /\ LET r == get_current_user(i.tok, now)
       IN resp' = Response("get_current_user", r.status, r.detail,
                           [email |-> r.email, call |-> i, at |-> now])
    /\ UNCHANGED <<now, advances, directory, next_id, reg, areq, tokens, issued, stale>>

NextToken ==
    \/ \E d \in TokenJumps : Advance(d)
    \/ \E data \in TokenData, expire_delta \in Lifetimes :
          CreateAccessToken(data, expire_delta)
    \/ \E i \in issued : VerifyToken(i)

SpecToken == Init /\ [][NextToken]_vars

----------------------------------------------------------------------------
(* C1                                                                      *)

\* The lifetime L a create_access_token call asked for.
LifetimeOf(i) == IF i.expire_delta = 0 THEN DefaultLifetime ELSE i.expire_delta

\* t0 + L cut down to a whole second.
WholeSecond(t) == (t \div TicksPerSec) * TicksPerSec

Verified == resp.op = "get_current_user" /\ resp.body.call.tok.sub # None

\* C1 as stated: a token issued at t0 for subject s with lifetime L > 0 is
\* accepted, returning s, at every t with t0 <= t < t0+L, and rejected with
\* 401 at every t >= t0+L.
C1_AcceptedUntilLifetime ==
    Verified =>
        LET i == resp.body.call
        IN /\ resp.body.at < i.t0 + LifetimeOf(i) =>
                resp.status = 200 /\ resp.body.email = i.tok.sub
           /\ resp.body.at >= i.t0 + LifetimeOf(i) => resp.status = 401

\* C1 amended: the token is accepted, returning s, at every t with
\* t0 <= t < E and rejected with 401 at every t >= E, where E is t0+L cut
\* down to a whole second.
C1_AcceptedUntilWholeSecond ==
    Verified =>
        LET i == resp.body.call
            E == WholeSecond(i.t0 + LifetimeOf(i))
        IN /\ resp.body.at >= i.t0
           /\ resp.body.at < E => resp.status = 200 /\ resp.body.email = i.tok.sub
           /\ resp.body.at >= E => resp.status = 401

\* A token issued off the second is verified in its last, cut-off fraction of
\* a second, and another one is verified while it is still good.
C1_Witness ==
    /\ Verified
    /\ resp.body.call.t0 % TicksPerSec # 0
    /\ resp.body.at >= WholeSecond(resp.body.call.t0 + LifetimeOf(resp.body.call))
    /\ resp.body.at < resp.body.call.t0 + LifetimeOf(resp.body.call)
    /\ resp.status = 401

----------------------------------------------------------------------------
(* C2                                                                      *)

HandlerStep ==
    /\ areq.pc = "handler"
    /\ areq'.pc = "idle"

Registered(email) == \E u \in directory : u.user_email = email

\* C2 as stated: once a user has been deleted, a request carrying a token
\* issued before that for the user's email never authenticates: it ends 401 or
\* 404, returns no user record and leaves the directory as it is.
C2_StaleTokenNeverAuthenticates ==
    [][HandlerStep /\ areq.token \in stale =>
          /\ resp'.status \in {401, 404}
          /\ resp'.body = NoBody
          /\ directory' = directory]_vars

\* C2 amended: such a request ends 404 or 401, returns no record and changes
\* nothing for as long as no row holds that email; once the email has been
\* registered again the token resolves to the new row.
C2_StaleTokenRejectedWhileUnregistered ==
    [][HandlerStep /\ areq.token \in stale /\ ~Registered(areq.token.sub) =>
          /\ resp'.status \in {401, 404}
          /\ resp'.body = NoBody
          /\ directory' = directory]_vars

\* A get_profile or update_profile with a stale token has just ended 404.
C2_Witness ==
    /\ resp.op \in {"get_profile", "update_profile"}
    /\ resp.status = 404
    /\ stale # {}
    /\ \A t \in stale : ~Registered(t.sub) /\ t.exp * TicksPerSec > now

----------------------------------------------------------------------------
(* C3                                                                      *)

\* C3: the directory never holds two rows with the same user_email, whatever
\* the interleaving of the register_user requests.
C3_UniqueEmail ==
    \A u, v \in directory : u.user_email = v.user_email => u = v

----------------------------------------------------------------------------
(* C4                                                                      *)

\* C4: a register_user whose email is in the directory when its existence
\* check runs ends there with 409, and adds or changes no row.
C4_DuplicateIsConflict ==
    [][\A p \in RegProcs, new_user \in NewUsers :
          RegisterCheck(p, new_user) /\ Registered(new_user.user_email) =>
              /\ resp'.op = "register_user"
              /\ resp'.status = 409
              /\ reg'[p].pc = "idle"
              /\ directory' = directory]_vars

\* A registration has just been answered 409 and the row it ran into is there.
C4_Witness ==
    /\ resp.op = "register_user"
    /\ resp.status = 409
    /\ directory # {}

----------------------------------------------------------------------------
(* C5                                                                      *)

\* C5: whatever the directory holds, a login with the email of a row and a
\* password that row's hash rejects is answered exactly as a login with an
\* email that has no row: 401, the same detail, no token.
C5_LoginFailuresAlike ==
    \A known, unknown \in Emails, bad, any \in Passwords :
        \A user \in first_by_email(directory, known),
           nobody \in first_by_email(directory, unknown) :
            (/\ user.user_id # 0
             /\ ~verify_password(bad, user.user_password)
             /\ nobody.user_id = 0) =>
                /\ login_for_access_token(user, bad, now)
                       = login_for_access_token(nobody, any, now)
                /\ login_for_access_token(user, bad, now).status = 401
                /\ login_for_access_token(user, bad, now).body = NoBody

\* A login has just failed while one email has a row and another has none.
C5_Witness ==
    /\ resp.op = "login"
    /\ resp.status = 401
    /\ \E known, unknown \in Emails : Registered(known) /\ ~Registered(unknown)

----------------------------------------------------------------------------
(* C6                                                                      *)

\* The details login_for_access_token and get_current_user can answer a 401
\* with now, over every login and every token a client can send.
LoginAnswers ==
    {login_for_access_token(user, password, now) :
        user \in directory \cup {NoUser}, password \in Passwords}
TokenAnswers == {get_current_user(token, now) : token \in Presented}
UnauthorizedDetails ==
    {a.detail : a \in {r \in LoginAnswers : r.status = 401}}
    \cup {a.detail : a \in {r \in TokenAnswers : r.status = 401}}

\* C6: every 401 reads the same, whatever its cause: the 401 last sent has the
\* detail of every 401 that login and get_current_user can send.
C6_UnauthorizedAlike ==
    resp.status = 401 => \A detail \in UnauthorizedDetails : detail = resp.detail

----------------------------------------------------------------------------
(* C7                                                                      *)

Hashes == {bcrypt(password, salt) : password \in Passwords, salt \in Salts}

----------------------------------------------------------------------------
(* C8                                                                      *)

LoginSucceeds(user, password) ==
    user.user_id # 0 /\ verify_password(password, user.user_password)

\* C8 as stated: login succeeds exactly when the email has a row and
\* verify_password accepts the password against its hash; then it returns
\* token_type "bearer" and a token for that email that expires at the request
\* time plus the default lifetime; otherwise 401 and no token. The directory
\* is never changed.
C8_LoginContract ==
    [][\A username \in Emails, password \in Passwords :
          resp'.op = "login" /\ Login(username, password) =>
              /\ directory' = directory
              /\ \E user \in first_by_email(directory, username) :
                    IF LoginSucceeds(user, password)
                    THEN /\ resp'.status = 200
                         /\ resp'.body.token_type = "bearer"
                         /\ resp'.body.access_token.sub = user.user_email
                         /\ resp'.body.access_token.sub = username
                         /\ resp'.body.access_token.exp * TicksPerSec
                               = now + DefaultLifetime
                    ELSE /\ resp'.status = 401
                         /\ resp'.body = NoBody
                         /\ tokens' = tokens]_vars

\* C8 amended: as stated, but the token expires at the request time plus the
\* default lifetime cut down to a whole second.
C8_LoginContractWholeSecond ==
    [][\A username \in Emails, password \in Passwords :
          resp'.op = "login" /\ Login(username, password) =>
              /\ directory' = directory
              /\ \E user \in first_by_email(directory, username) :
                    IF LoginSucceeds(user, password)
                    THEN /\ resp'.status = 200
                         /\ resp'.body.token_type = "bearer"
                         /\ resp'.body.access_token.sub = user.user_email
                         /\ resp'.body.access_token.sub = username
                         /\ resp'.body.access_token.exp * TicksPerSec
                               = WholeSecond(now + DefaultLifetime)
                    ELSE /\ resp'.status = 401
                         /\ resp'.body = NoBody
                         /\ tokens' = tokens]_vars

\* A login off the second has just succeeded.
C8_Witness ==
    /\ resp.op = "login"
    /\ resp.status = 200
    /\ now % TicksPerSec # 0
    /\ resp.body.access_token.exp * TicksPerSec = WholeSecond(now + DefaultLifetime)

----------------------------------------------------------------------------
(* C9                                                                      *)

Kinds == {"get_profile", "update_profile"}

\* C9: a request whose token get_current_user rejects ends there with 401:
\* no handler is started for it, no record is returned and no row changes;
\* and a handler only ever runs for a token get_current_user accepted.
C9_RejectedNeverReachesHandler ==
    [][/\ (areq.pc = "idle" /\ reg' = reg /\ now' = now) =>
            \A token \in Presented :
                get_current_user(token, now).status # 200 =>
                    \A kind \in Kinds, profile_data \in Updates :
                        GetCurrentUser(kind, token, profile_data) =>
                            /\ areq' = areq
                            /\ resp'.op = kind
                            /\ resp'.status = 401
                            /\ resp'.body = NoBody
                            /\ directory' = directory
       /\ (areq'.pc = "handler" /\ areq.pc # "handler") =>
             get_current_user(areq'.token, now).status = 200]_vars

\* A protected request has just been turned away by get_current_user.
C9_Witness ==
    /\ resp.op \in Kinds
    /\ resp.status = 401
    /\ areq.pc = "idle"
    /\ directory # {}

----------------------------------------------------------------------------
(* C10                                                                     *)

\* C10: update_profile for a subject that has a row changes, on one row with
\* that email, exactly the fields the body sets; the other fields, the other
\* rows and the number of rows stay; for a subject without a row it answers
\* 404 and changes nothing.
C10_UpdateChangesOnlySentFields ==
    [][UpdateAuthUserProfile =>
          IF ~Registered(areq.current_user_email)
          THEN resp'.status = 404 /\ directory' = directory
          ELSE \E u \in directory : \E v \in directory' :
                 /\ u.user_email = areq.current_user_email
                 /\ v.user_id = u.user_id
                 /\ \A f \in MutableFields :
                       v[f] = IF areq.profile_data[f] # Unset
                              THEN areq.profile_data[f] ELSE u[f]
                 /\ \A f \in UserFields \ MutableFields : v[f] = u[f]
                 /\ directory' \ {v} = directory \ {u}
                 /\ Cardinality(directory') = Cardinality(directory)]_vars

\* An update has just gone through and another user's row is there too.
C10_Witness ==
    /\ resp.op = "update_profile"
    /\ resp.status = 200
    /\ \E u \in directory : u.user_name = "n2"
    /\ Cardinality(directory) = 2

====
